---- MODULE Spec2Model ----
(***************************************************************************)
(* Chapter-synthesis pipeline of backend/services/llm_chapter_generator.py *)
(* (response parser, snapper, fallback generator, orchestrator and the     *)
(* single-chapter edit), and the chapter endpoints of backend/main.py     *)
(* (generate_chapters, regenerate_chapter), modelled as a state machine.   *)
(*                                                                         *)
(* Python values are encoded as follows.                                   *)
(*   Optional/JSON scalar : a record [tag, v]; None, Some(n), StrVal(n)    *)
(*   TranscriptLine       : [start_sec, end_sec, text]                     *)
(*   ChapterData          : [title, start_sec, end_sec, summary, tags,     *)
(*                           source, confidence, order]                    *)
(*   Chapter (table row)  : the ChapterData fields, id and updated_at      *)
(*   a time string        : the sequence of its colon-separated components *)
(*   an exception         : the name of its class in the variable raised   *)
(***************************************************************************)
EXTENDS Integers, Sequences, FiniteSets, TLC

\* ------------------------------------------------------------------ bounds
\* Largest second offset of a transcript line.
MaxTime == 1
\* Longest transcript (number of lines).
MaxSegs == 2
\* Longest candidate list handed to the snapper directly.
MaxCands == 1
\* Longest "chapters" array in a model response.
MaxRaw == 2
\* Largest explicitly requested max_chapters below the default.
MaxRequested == 2
\* Number of API requests served on one project's chapters.
MaxHandlers == 2

\* ------------------------------------------------------- program constants
\* `max_chapters or 10`, `min(max_chapters or 10, 10)`.
DefaultMaxChapters == 10
\* `context_text[:120]`.
SummaryChars == 120

\* ------------------------------------------------------------ Python values
None == [tag |-> "None", v |-> 0]
Some(n) == [tag |-> "int", v |-> n]
StrVal(n) == [tag |-> "str", v |-> n]

\* Python truthiness of an optional/JSON scalar: None and 0 are falsy.
Falsy(x) == x.tag = "None" \/ (x.tag = "int" /\ x.v = 0)

\* `x or y` where y is an integer.
OrInt(x, y) == IF Falsy(x) THEN Some(y) ELSE x

Min2(a, b) == IF a <= b THEN a ELSE b
Max2(a, b) == IF a >= b THEN a ELSE b
Abs(a) == IF a < 0 THEN -a ELSE a

\* Python floor division a // b for b # 0.
FloorDiv(a, b) == IF b > 0 THEN a \div b ELSE (-a) \div (-b)

\* Mutant of SliceTo: the slice is forgotten.
SliceToUntruncated(seq, n) == seq

\* Python seq[:n], n possibly negative.
SliceTo(seq, n) ==
    IF n >= 0 THEN SubSeq(seq, 1, Min2(n, Len(seq)))
    ELSE SubSeq(seq, 1, Max2(Len(seq) + n, 0))

\* Sequences over S of length lo..hi.
SeqsOf(S, lo, hi) == UNION {[1..n -> S] : n \in lo..hi}

\* ---------------------------------------------------------------- helpers
\* _format_seconds: the three fields of "HH:MM:SS".
_format_seconds(total_seconds) ==
    <<total_seconds \div 3600, (total_seconds % 3600) \div 60, total_seconds % 60>>

\* A component of a time string: Num(n) is accepted by int(), NaN is not.
Num(n) == [isInt |-> TRUE, val |-> n]
NaN == [isInt |-> FALSE, val |-> 0]

\* A JSON field read with ch.get(key, default): absent, a string (its
\* colon-separated components) or a value that is not a string.
AbsentField == [kind |-> "absent", parts |-> <<>>]
StrField(parts) == [kind |-> "str", parts |-> parts]
OtherField == [kind |-> "other", parts |-> <<>>]

\* Mutant of _hms_to_seconds: the final raise is missing, so any other
\* number of integer components converts (to 0).
HmsToSecondsNoRaise(parts) ==
    IF \E i \in 1..Len(parts) : ~parts[i].isInt
    THEN [ok |-> FALSE, value |-> 0]
    ELSE IF Len(parts) = 2
    THEN [ok |-> TRUE, value |-> parts[1].val * 60 + parts[2].val]
    ELSE IF Len(parts) = 3
    THEN [ok |-> TRUE,
          value |-> parts[1].val * 3600 + parts[2].val * 60 + parts[3].val]
    ELSE [ok |-> TRUE, value |-> 0]

\* _hms_to_seconds on the components of a string; ok = FALSE is ValueError.
_hms_to_seconds(parts) ==
    IF \E i \in 1..Len(parts) : ~parts[i].isInt
    THEN [ok |-> FALSE, value |-> 0]
    ELSE IF Len(parts) = 2
    THEN [ok |-> TRUE, value |-> parts[1].val * 60 + parts[2].val]
    ELSE IF Len(parts) = 3
    THEN [ok |-> TRUE,
          value |-> parts[1].val * 3600 + parts[2].val * 60 + parts[3].val]
    ELSE [ok |-> FALSE, value |-> 0]

\* sorted(lines, key=lambda l: l.start_sec): stable insertion sort.
RECURSIVE InsertByStart(_, _)
InsertByStart(sorted, line) ==
    IF sorted = <<>> THEN <<line>>
    ELSE IF sorted[Len(sorted)].start_sec <= line.start_sec
    THEN Append(sorted, line)
    ELSE Append(InsertByStart(SubSeq(sorted, 1, Len(sorted) - 1), line),
                sorted[Len(sorted)])

RECURSIVE SortedByStart(_)
SortedByStart(lines) ==
    IF lines = <<>> THEN <<>>
    ELSE InsertByStart(SortedByStart(SubSeq(lines, 1, Len(lines) - 1)),
                       lines[Len(lines)])

\* `l.end_sec if l.end_sec is not None else l.start_sec`
EndOrStart(line) == IF line.end_sec.tag = "None" THEN line.start_sec ELSE line.end_sec.v

\* min(values) / max(values) of a non-empty sequence of integers.
MinOf(values) == CHOOSE x \in {values[i] : i \in 1..Len(values)} :
                     \A j \in 1..Len(values) : x <= values[j]
MaxOf(values) == CHOOSE x \in {values[i] : i \in 1..Len(values)} :
                     \A j \in 1..Len(values) : x >= values[j]

\* ------------------------------------------------------------------ snapper
\* Mutant of _nearest_time: the clamped target is returned unsnapped.
NearestTimeUnsnapped(target, candidates) == target

\* _nearest_time: min(candidates, key=|x - target|), the first minimum.
_nearest_time(target, candidates) ==
    IF candidates = <<>> THEN target
    ELSE LET best == CHOOSE i \in 1..Len(candidates) :
                        /\ \A j \in 1..Len(candidates) :
                              Abs(candidates[i] - target) <= Abs(candidates[j] - target)
                        /\ \A j \in 1..(i - 1) :
                              Abs(candidates[j] - target) > Abs(candidates[i] - target)
         IN candidates[best]

\* Mutant of SnapOne: an end snapped before the start is not repaired.
SnapOneNoRepair(ch, starts, ends) ==
    LET min_time == MinOf(starts)
        max_time == MaxOf(ends)
        start_raw == Max2(Min2(ch.start_sec, max_time), min_time)
        end_in == IF ch.end_sec.tag = "None" THEN ch.start_sec ELSE ch.end_sec.v
        end_raw == Max2(Min2(end_in, max_time), min_time)
    IN [ch EXCEPT !.start_sec = _nearest_time(start_raw, starts),
                  !.end_sec = Some(_nearest_time(end_raw, ends))]

\* Lines 179-199: one candidate clamped, snapped and repaired.
SnapOne(ch, starts, ends) ==
    LET min_time == MinOf(starts)
        max_time == MaxOf(ends)
        start_raw == Max2(Min2(ch.start_sec, max_time), min_time)
        end_in == IF ch.end_sec.tag = "None" THEN ch.start_sec ELSE ch.end_sec.v
        end_raw == Max2(Min2(end_in, max_time), min_time)
        snapped_start == _nearest_time(start_raw, starts)
        snapped_end == _nearest_time(end_raw, ends)
    IN [ch EXCEPT !.start_sec = snapped_start,
                  !.end_sec = Some(IF snapped_end < snapped_start
                                   THEN snapped_start ELSE snapped_end)]

_snap_chapters_to_transcript(chs, lines) ==
    IF chs = <<>> \/ lines = <<>> THEN chs
    ELSE LET starts == [i \in 1..Len(lines) |-> lines[i].start_sec]
             ends == [i \in 1..Len(lines) |-> EndOrStart(lines[i])]
         IN [i \in 1..Len(chs) |-> SnapOne(chs[i], starts, ends)]

\* ------------------------------------------------------------ chapter data
\* Titles: "Chapter {n}: {a} - {b}" (stub), "Chapter {n}" (default),
\* a title given by the model, "Adjusted Chapter @ {a}" (ai_edit).
Title(kind, n, a, b) == [kind |-> kind, n |-> n, a |-> a, b |-> b]
AbsentTitle == Title("absent", 0, <<>>, <<>>)
GivenTitle(n) == Title("llm", n, <<>>, <<>>)

\* Texts are sequences of character codes; NoText is None or "".
Text(kind, chars) == [kind |-> kind, text |-> chars]
NoText == Text("None", <<>>)
PlaceholderSummary == Text("placeholder", <<>>)
\* "No nearby transcript context."
NoNearbyContext == <<0, 0>>

ChapterData(title, start_sec, end_sec, summary, source, confidence, order) ==
    [title |-> title, start_sec |-> start_sec, end_sec |-> end_sec,
     summary |-> summary, tags |-> None, source |-> source,
     confidence |-> confidence, order |-> order]

\* --------------------------------------------------------- fallback generator
\* duration of _fallback_stub and of generate_chapters_from_transcript.
Duration(lines) ==
    LET sorted_lines == SortedByStart(lines)
        last == sorted_lines[Len(sorted_lines)]
        duration == OrInt(last.end_sec, last.start_sec).v
    IN Max2(duration, last.start_sec)

\* chapter idx (0-based) of the equal split.
StubChapter(idx, step, duration) ==
    LET start == idx * step
        end == Min2((idx + 1) * step, duration)
    IN ChapterData(Title("stub", idx + 1, _format_seconds(start), _format_seconds(end)),
                   start, Some(end), PlaceholderSummary, "auto_stub", "0.5",
                   Some(idx + 1))

_fallback_stub(lines, max_chapters) ==
    IF lines = <<>> THEN <<>>
    ELSE LET duration == Duration(lines)
             chapter_count == Min2(OrInt(Some(max_chapters), DefaultMaxChapters).v,
                                   DefaultMaxChapters)
             step == Max2(FloorDiv(duration, chapter_count), 1)
         IN [i \in 1..chapter_count |-> StubChapter(i - 1, step, duration)]

\* ------------------------------------------------------------ response parser
\* One element of the "chapters" array.
Row(isdict, start, end, title, reason, summary, index) ==
    [isdict |-> isdict, start |-> start, end |-> end, title |-> title,
     reason |-> reason, summary |-> summary, index |-> index]
AbsentIndex == [tag |-> "absent", v |-> 0]

\* _hms_to_seconds(ch.get(key, "00:00:00")): a value that is not a string
\* has no split() and raises as well.
FieldSeconds(field) ==
    IF field.kind = "absent" THEN _hms_to_seconds(<<Num(0), Num(0), Num(0)>>)
    ELSE IF field.kind = "str" THEN _hms_to_seconds(field.parts)
    ELSE [ok |-> FALSE, value |-> 0]

\* The body of the per-element try block; ok = FALSE is the except branch.
ParseRow(idx, ch) ==
    LET start == FieldSeconds(ch.start)
        end == FieldSeconds(ch.end)
    IN IF ~ch.isdict \/ ~start.ok \/ ~end.ok
       THEN [ok |-> FALSE, chapter |-> None]
       ELSE [ok |-> TRUE,
             chapter |->
                 ChapterData(
                     IF ch.title.kind = "absent"
                     THEN Title("default", idx + 1, <<>>, <<>>) ELSE ch.title,
                     start.value, Some(end.value),
                     IF ch.reason.kind # "None" THEN ch.reason ELSE ch.summary,
                     "auto_llm", "None",
                     IF ch.index.tag = "absent" THEN Some(idx + 1) ELSE ch.index)]

RECURSIVE ParseRows(_, _)
ParseRows(rows, n) ==
    IF n = 0 THEN <<>>
    ELSE LET r == ParseRow(n - 1, rows[n])
         IN IF r.ok THEN Append(ParseRows(rows, n - 1), r.chapter)
            ELSE ParseRows(rows, n - 1)

\* A response body is [kind, chapters]; kind names its shape.
Response(kind, rows) == [kind |-> kind, chapters |-> rows]
NoResponse == Response("None", <<>>)

\* _parse_llm_response: the exception it raises ("" for none) and its list.
Parsed(exc, chs) == [raised |-> exc, chapters |-> chs]
_parse_llm_response(data) ==
    CASE data.kind \in {"None", "no_choices"} -> Parsed("", <<>>)
      [] data.kind = "no_message" -> Parsed("KeyError", <<>>)
      [] data.kind = "content_null" -> Parsed("TypeError", <<>>)
      [] data.kind = "content_not_json" -> Parsed("", <<>>)
      [] data.kind = "json_not_object" -> Parsed("AttributeError", <<>>)
      [] data.kind = "no_chapters_key" -> Parsed("", <<>>)
      [] data.kind = "chapters_null" -> Parsed("TypeError", <<>>)
      [] data.kind = "chapters" ->
             Parsed("", ParseRows(data.chapters, Len(data.chapters)))

\* ---------------------------------------------------------------- orchestrator
\* The sort key (c.order or 0, c.start_sec).
SortKey(c) == [order |-> OrInt(c.order, 0), start_sec |-> c.start_sec]
KeyLess(a, b) ==
    \/ a.order.v < b.order.v
    \/ a.order.v = b.order.v /\ a.start_sec < b.start_sec

\* Comparing a str order with an int order raises TypeError.
SortRaises(chs) ==
    \E i, j \in 1..Len(chs) : SortKey(chs[i]).order.tag # SortKey(chs[j]).order.tag

RECURSIVE InsertByKey(_, _)
InsertByKey(sorted, c) ==
    IF sorted = <<>> THEN <<c>>
    ELSE IF ~KeyLess(SortKey(c), SortKey(sorted[Len(sorted)]))
    THEN Append(sorted, c)
    ELSE Append(InsertByKey(SubSeq(sorted, 1, Len(sorted) - 1), c),
                sorted[Len(sorted)])

RECURSIVE SortedByKey(_)
SortedByKey(chs) ==
    IF chs = <<>> THEN <<>>
    ELSE InsertByKey(SortedByKey(SubSeq(chs, 1, Len(chs) - 1)), chs[Len(chs)])

\* prompt of generate_chapters_from_transcript: the two template fields.
_build_transcript_text(lines) ==
    LET sorted_lines == SortedByStart(lines)
    IN [i \in 1..Len(sorted_lines) |->
           <<_format_seconds(sorted_lines[i].start_sec),
             _format_seconds(EndOrStart(sorted_lines[i])),
             sorted_lines[i].text>>]

Prompt(lines) ==
    [VIDEO_DURATION_MINUTES |-> Max2(1, Duration(lines) \div 60),
     TRANSCRIPT_TEXT |-> _build_transcript_text(SortedByStart(lines))]

\* ------------------------------------------------------- single-chapter edit
Take(chars, n) == SubSeq(chars, 1, Min2(n, Len(chars)))

\* Mutant of regenerate_single_chapter: the qualifying line with the least
\* start is quoted instead of the first one in the order supplied.
RegenerateFromLeastStart(lines, new_start) ==
    LET hits == {i \in 1..Len(lines) : lines[i].start_sec >= new_start}
        context_text ==
            IF hits = {} THEN NoNearbyContext
            ELSE lines[CHOOSE i \in hits :
                           \A j \in hits :
                               \/ lines[i].start_sec < lines[j].start_sec
                               \/ lines[i].start_sec = lines[j].start_sec /\ i <= j].text
    IN ChapterData(Title("adjusted", 0, _format_seconds(new_start), <<>>),
                   new_start, None,
                   Text("auto_updated", Take(context_text, SummaryChars)),
                   "ai_edit", "0.6", None)

regenerate_single_chapter(lines, new_start) ==
    LET hits == {i \in 1..Len(lines) : lines[i].start_sec >= new_start}
        context_text ==
            IF hits = {} THEN NoNearbyContext
            ELSE lines[CHOOSE i \in hits : \A j \in hits : i <= j].text
    IN ChapterData(Title("adjusted", 0, _format_seconds(new_start), <<>>),
                   new_start, None,
                   Text("auto_updated", Take(context_text, SummaryChars)),
                   "ai_edit", "0.6", None)

\* ==================================================================== state
VARIABLES
    transcript_lines,   \* the caller's TranscriptLine list, in the order supplied
    max_chapters,       \* the requested max_chapters
    api_key,            \* TRUE iff settings.volcengine_api_key is configured
    pc,                 \* position of the invocation
    requests,           \* POST requests sent to the model endpoint so far
    prompt,             \* the prompt built for the model
    api_response,       \* what _call_volcengine_chat returned
    chapters,           \* candidate chapters (parsed, or handed to the snapper)
    new_start_sec,      \* argument of regenerate_single_chapter
    result,             \* the value returned
    raised,             \* the exception that escaped, "" for none
    stored,             \* the project's rows of the chapter table
    next_id,            \* the next primary key of the chapter table
    now,                \* the clock read by datetime.utcnow()
    handlers            \* the API requests: kind, position and locals

\* The store and the requests served on it.
store_vars == <<stored, next_id, now, handlers>>

vars == <<transcript_lines, max_chapters, api_key, pc, requests, prompt,
          api_response, chapters, new_start_sec, result, raised, store_vars>>

\* ------------------------------------------------------------------- inputs
Times == 0..MaxTime
OptTimes(S) == {None} \cup {Some(t) : t \in S}

\* Transcript lines as parse_transcript_txt and the store deliver them: the
\* parser does not check end >= start.
Lines(texts) == [start_sec : Times, end_sec : OptTimes(Times), text : texts]
PlainText == <<1>>
Transcripts(lo) == SeqsOf(Lines({PlainText}), lo, MaxSegs)

\* -1, 0 (stands for 10), small requests and one above the default.
MaxChaptersInputs == ((-1)..MaxRequested) \cup {DefaultMaxChapters + 1}

\* Candidates the snapper may be handed: times from 0 to above MaxTime.
CandTimes == 0..(MaxTime + 1)
Candidates ==
    {ChapterData(GivenTitle(1), s, e, NoText, "auto_llm", "None", Some(1)) :
        s \in CandTimes, e \in OptTimes(CandTimes)}
CandLists == SeqsOf(Candidates, 0, MaxCands)

\* No request is being served and the chapter table is empty.
Handlers == 1..MaxHandlers
IdleHandler ==
    [kind |-> "none", pc |-> "idle", stub_chapters |-> <<>>,
     before |-> <<>>, new_chapters |-> <<>>]
EmptyStore ==
    /\ stored = {}
    /\ next_id = 1
    /\ now = 0
    /\ handlers = [h \in Handlers |-> IdleHandler]

Idle ==
    /\ EmptyStore
    /\ pc = "idle"
    /\ requests = 0
    /\ prompt = <<>>
    /\ api_response = NoResponse
    /\ chapters = <<>>
    /\ new_start_sec = 0
    /\ result = <<>>
    /\ raised = ""

\* ------------------------------------------------------------------ snapper
\* A direct call _snap_chapters_to_transcript(chapters, transcript_lines).
SnapChapters ==
    /\ pc = "idle"
    /\ \E chs \in CandLists :
          /\ chapters' = chs
          /\ result' = _snap_chapters_to_transcript(chs, transcript_lines)
    /\ pc' = "done"
    /\ UNCHANGED store_vars
    /\ UNCHANGED <<transcript_lines, max_chapters, api_key, requests, prompt,
                   api_response, new_start_sec, raised>>

InitSnap ==
    /\ transcript_lines \in Transcripts(1)
    /\ max_chapters = DefaultMaxChapters
    /\ api_key = FALSE
    /\ Idle

NextSnap == SnapChapters

SpecSnap == InitSnap /\ [][NextSnap]_vars

\* ----------------------------------------------------------- model responses
\* The shapes of a 2xx body that _parse_llm_response tells apart.
BodyKinds == {"no_choices", "no_message", "content_null", "content_not_json",
              "json_not_object", "no_chapters_key", "chapters_null"}

HMS(h, m, sec) == StrField(<<Num(h), Num(m), Num(sec)>>)
MS(m, sec) == StrField(<<Num(m), Num(sec)>>)

\* Rows of the orchestrator's responses: a usable row without index whose
\* times lie outside the transcript and are inverted, a row whose start is
\* not a time, and a usable row whose index is a string.
UsableRow == Row(TRUE, HMS(0, 0, MaxTime + 1), MS(0, 0), GivenTitle(1),
                 Text("llm", <<1>>), NoText, AbsentIndex)
BadTimeRow == Row(TRUE, StrField(<<Num(0), NaN>>), MS(0, 1), AbsentTitle,
                  NoText, NoText, Some(1))
StrIndexRow == Row(TRUE, AbsentField, MS(0, 1), AbsentTitle,
                   NoText, Text("llm", <<2>>), StrVal(1))
OrchestratorRows == {UsableRow, BadTimeRow, StrIndexRow}

Bodies(rows) ==
    {Response(k, <<>>) : k \in BodyKinds}
        \cup {Response("chapters", r) : r \in SeqsOf(rows, 0, MaxRaw)}

\* ---------------------------------------------- generate_chapters_from_transcript
\* Lines 235-247: the empty check, the sort, the duration and the prompt.
GenerateBegin ==
    /\ pc = "idle"
    /\ IF transcript_lines = <<>>
       THEN /\ pc' = "done"
            /\ UNCHANGED prompt
       ELSE /\ pc' = "calling"
            /\ prompt' = Prompt(transcript_lines)
    /\ UNCHANGED store_vars
    /\ UNCHANGED <<transcript_lines, max_chapters, api_key, requests,
                   api_response, chapters, new_start_sec, result, raised>>

\* Line 250 on the value line 249 returned.
AfterCall(response) ==
    LET parsed == IF response = NoResponse THEN Parsed("", <<>>)
                  ELSE _parse_llm_response(response)
    IN /\ api_response' = response
       /\ chapters' = parsed.chapters
       /\ raised' = parsed.raised
       /\ pc' = IF parsed.raised = "" THEN "parsed" ELSE "raised"

\* Lines 249-250: _call_volcengine_chat, then _parse_llm_response.  Without a
\* credential no request is sent; a transport error or a non-2xx status is
\* caught and gives None; otherwise the body is whatever the provider sent.
CallAndParse ==
    /\ pc = "calling"
    /\ \/ /\ ~api_key
          /\ UNCHANGED requests
          /\ AfterCall(NoResponse)
       \/ /\ api_key
          /\ requests' = requests + 1
          /\ AfterCall(NoResponse)
       \/ /\ api_key
          /\ requests' = requests + 1
          /\ \E body \in Bodies(OrchestratorRows) : AfterCall(body)
    /\ UNCHANGED store_vars
    /\ UNCHANGED <<transcript_lines, max_chapters, api_key, prompt,
                   new_start_sec, result>>

\* Lines 252-255: snap, sort by (order or 0, start_sec), truncate.
ReturnSnapped ==
    /\ pc = "parsed"
    /\ chapters # <<>>
    /\ LET chapters_snapped ==
               _snap_chapters_to_transcript(chapters, SortedByStart(transcript_lines))
       IN IF SortRaises(chapters_snapped)
          THEN /\ raised' = "TypeError"
               /\ pc' = "raised"
               /\ UNCHANGED result
          ELSE /\ result' = SliceTo(SortedByKey(chapters_snapped),
                                    OrInt(Some(max_chapters), DefaultMaxChapters).v)
               /\ pc' = "done"
               /\ UNCHANGED raised
    /\ UNCHANGED store_vars
    /\ UNCHANGED <<transcript_lines, max_chapters, api_key, requests, prompt,
                   api_response, chapters, new_start_sec>>

\* Line 258: the fallback over the list as supplied.
ReturnFallback ==
    /\ pc = "parsed"
    /\ chapters = <<>>
    /\ result' = _fallback_stub(transcript_lines, max_chapters)
    /\ pc' = "done"
    /\ UNCHANGED store_vars
    /\ UNCHANGED <<transcript_lines, max_chapters, api_key, requests, prompt,
                   api_response, chapters, new_start_sec, raised>>

Init ==
    /\ transcript_lines \in Transcripts(0)
    /\ max_chapters \in MaxChaptersInputs
    /\ api_key \in BOOLEAN
    /\ Idle

Next == GenerateBegin \/ CallAndParse \/ ReturnSnapped \/ ReturnFallback

Spec == Init /\ [][Next]_vars

\* ------------------------------------------------- direct calls of the parts
\* _fallback_stub(transcript_lines, max_chapters).
FallbackStub ==
    /\ pc = "idle"
    /\ result' = _fallback_stub(transcript_lines, max_chapters)
    /\ pc' = "done"
    /\ UNCHANGED store_vars
    /\ UNCHANGED <<transcript_lines, max_chapters, api_key, requests, prompt,
                   api_response, chapters, new_start_sec, raised>>

\* Transcripts long enough for durations that no requested count divides.
FallbackTimes == 0..(MaxTime + 2)
FallbackLines ==
    [start_sec : FallbackTimes, end_sec : OptTimes(FallbackTimes), text : {PlainText}]

InitFallback ==
    /\ transcript_lines \in SeqsOf(FallbackLines, 0, MaxSegs)
    /\ max_chapters \in MaxChaptersInputs
    /\ api_key = FALSE
    /\ Idle

NextFallback == FallbackStub

SpecFallback == InitFallback /\ [][NextFallback]_vars

\* The values a "start" or "end" key may hold: absent, MM:SS, HH:MM:SS, one
\* component, four components, a component that is no integer, no string.
TimeFields ==
    {AbsentField, MS(0, 1), HMS(0, 1, 0), StrField(<<Num(5)>>),
     StrField(<<Num(0), Num(0), Num(0), Num(1)>>), StrField(<<Num(0), NaN>>),
     OtherField}

\* Array elements: every pair of time fields without index, and elements
\* with an integer index, a null index, and one that is no object.
ParserRows ==
    {Row(TRUE, st, en, AbsentTitle, NoText, NoText, AbsentIndex) :
        st \in TimeFields, en \in TimeFields}
    \cup {Row(TRUE, MS(0, 1), HMS(0, 1, 0), GivenTitle(1), Text("llm", <<1>>),
              NoText, Some(7)),
          Row(TRUE, MS(0, 1), MS(0, 1), AbsentTitle, NoText, Text("llm", <<2>>),
              None),
          Row(FALSE, AbsentField, AbsentField, AbsentTitle, NoText, NoText,
              AbsentIndex)}

\* _parse_llm_response(api_response) on any body.
ParseLlmResponse ==
    /\ pc = "idle"
    /\ \E data \in {NoResponse} \cup Bodies(ParserRows) :
          LET parsed == _parse_llm_response(data)
          IN /\ api_response' = data
             /\ chapters' = parsed.chapters
             /\ raised' = parsed.raised
             /\ pc' = IF parsed.raised = "" THEN "done" ELSE "raised"
    /\ UNCHANGED store_vars
    /\ UNCHANGED <<transcript_lines, max_chapters, api_key, requests, prompt,
                   new_start_sec, result>>

InitParse ==
    /\ transcript_lines = <<>>
    /\ max_chapters = DefaultMaxChapters
    /\ api_key = FALSE
    /\ Idle

NextParse == ParseLlmResponse

SpecParse == InitParse /\ [][NextParse]_vars

\* A text longer than the summary quotes, and a short one.
LongText == [i \in 1..(SummaryChars + 1) |-> 2]
Texts == {PlainText, LongText}

\* regenerate_single_chapter(transcript_lines, new_start_sec, title, summary).
RegenerateSingleChapter ==
    /\ pc = "idle"
    /\ \E t \in (-1)..(MaxTime + 1) :
          /\ new_start_sec' = t
          /\ result' = regenerate_single_chapter(transcript_lines, t)
    /\ pc' = "done"
    /\ UNCHANGED store_vars
    /\ UNCHANGED <<transcript_lines, max_chapters, api_key, requests, prompt,
                   api_response, chapters, raised>>

InitRegen ==
    /\ transcript_lines \in SeqsOf(Lines(Texts), 0, MaxSegs)
    /\ max_chapters = DefaultMaxChapters
    /\ api_key \in BOOLEAN
    /\ Idle

NextRegen == RegenerateSingleChapter

SpecRegen == InitRegen /\ [][NextRegen]_vars

\* ------------------------------------------------------ the chapter endpoints
\* main.py, generate_chapters and regenerate_chapter, served on the rows of
\* one project.  Each request has its own session; session.commit() ends a
\* transaction, so a handler is one step per commit and the steps of
\* different requests interleave.

\* `.order_by(TranscriptLine.start_sec)`: the rows in any order that is
\* ascending by start_sec (rows of equal start_sec come in either order).
OrderedByStart(lines) ==
    {l \in [1..Len(lines) -> {lines[i] : i \in 1..Len(lines)}] :
        /\ \A i \in 1..Len(lines) :
               Cardinality({j \in 1..Len(lines) : l[j] = lines[i]})
                   = Cardinality({j \in 1..Len(lines) : lines[j] = lines[i]})
        /\ \A i \in 1..(Len(l) - 1) : l[i].start_sec <= l[i + 1].start_sec}

\* generate_chapters_from_transcript as one call: the value returned or the
\* exception raised, given what _call_volcengine_chat returned.
generate_chapters_from_transcript(lines, max, response) ==
    LET parsed == IF response = NoResponse THEN Parsed("", <<>>)
                  ELSE _parse_llm_response(response)
        chapters_snapped ==
            _snap_chapters_to_transcript(parsed.chapters, SortedByStart(lines))
    IN  IF lines = <<>> THEN Parsed("", <<>>)
        ELSE IF parsed.raised # "" THEN Parsed(parsed.raised, <<>>)
        ELSE IF parsed.chapters = <<>>
             THEN Parsed("", _fallback_stub(lines, max))
        ELSE IF SortRaises(chapters_snapped) THEN Parsed("TypeError", <<>>)
        ELSE Parsed("", SliceTo(SortedByKey(chapters_snapped),
                                OrInt(Some(max), DefaultMaxChapters).v))

\* What the model endpoint may answer to one request.
Responses ==
    IF api_key THEN {NoResponse} \cup Bodies(OrchestratorRows) ELSE {NoResponse}

\* A row of the chapter table built from a ChapterData (lines 174-184);
\* created_at and version are never written again and are left out.
Chapter(id, ch_data, idx, at) ==
    [id |-> id, title |-> ch_data.title, start_sec |-> ch_data.start_sec,
     end_sec |-> ch_data.end_sec, summary |-> ch_data.summary,
     tags |-> ch_data.tags, source |-> ch_data.source,
     confidence |-> ch_data.confidence,
     order |-> OrInt(ch_data.order, idx + 1), updated_at |-> at]

Range(seq) == {seq[i] : i \in 1..Len(seq)}

\* Lines 153-165: the project and its transcript are read and the chapters
\* generated; 400 without transcript lines, 500 when the generator raises.
GenerateChaptersBegin(h) ==
    /\ handlers[h].pc = "idle"
    /\ \E lines \in OrderedByStart(transcript_lines), response \in Responses :
         LET generated ==
                 generate_chapters_from_transcript(lines, max_chapters, response)
         IN handlers' =
              [handlers EXCEPT ![h] =
                 IF lines = <<>> \/ generated.raised # ""
                 THEN [@ EXCEPT !.kind = "generate", !.pc = "failed"]
                 ELSE [@ EXCEPT !.kind = "generate", !.pc = "generated",
                                !.stub_chapters = generated.chapters]]
    /\ UNCHANGED <<stored, next_id, now>>
    /\ UNCHANGED <<transcript_lines, max_chapters, api_key, pc, requests, prompt,
                   api_response, chapters, new_start_sec, result, raised>>

\* Lines 167-170: every existing chapter of the project is deleted and the
\* deletion committed.
GenerateChaptersDelete(h) ==
    /\ handlers[h].pc = "generated"
    /\ stored' = {}
    /\ handlers' = [handlers EXCEPT ![h].pc = "deleted"]
    /\ UNCHANGED <<next_id, now>>
    /\ UNCHANGED <<transcript_lines, max_chapters, api_key, pc, requests, prompt,
                   api_response, chapters, new_start_sec, result, raised>>

\* Lines 172-192: one row per generated chapter is added and committed.
GenerateChaptersInsert(h) ==
    /\ handlers[h].pc = "deleted"
    /\ LET stub_chapters == handlers[h].stub_chapters
           new_chapters ==
               [idx \in 1..Len(stub_chapters) |->
                   Chapter(next_id + idx - 1, stub_chapters[idx], idx - 1, now)]
       IN /\ stored' = stored \cup Range(new_chapters)
          /\ next_id' = next_id + Len(stub_chapters)
          /\ handlers' = [handlers EXCEPT ![h].pc = "done",
                                          ![h].new_chapters = new_chapters]
    /\ now' = now + 1
    /\ UNCHANGED <<transcript_lines, max_chapters, api_key, pc, requests, prompt,
                   api_response, chapters, new_start_sec, result, raised>>

\* new_start_sec of a ChapterRegenerateRequest (schemas.py line 79).
NewStartSecs == 0..(MaxTime + 1)

\* Lines 216-242: 404 for an unknown chapter_id; otherwise the chapter is
\* regenerated at new_start_sec and the row updated in one commit.
RegenerateChapter(h) ==
    /\ handlers[h].pc = "idle"
    /\ \E chapter_id \in 0..(next_id - 1), start \in NewStartSecs,
          lines \in OrderedByStart(transcript_lines) :
         LET found == {c \in stored : c.id = chapter_id}
             chapter == CHOOSE c \in found : TRUE
             regenerated == regenerate_single_chapter(lines, start)
             updated == [chapter EXCEPT !.title = regenerated.title,
                                        !.start_sec = regenerated.start_sec,
                                        !.summary = regenerated.summary,
                                        !.source = regenerated.source,
                                        !.updated_at = now]
         IN IF found = {}
            THEN /\ handlers' = [handlers EXCEPT ![h].kind = "regenerate",
                                                 ![h].pc = "failed"]
                 /\ UNCHANGED <<stored, now>>
            ELSE /\ stored' = (stored \ found) \cup {updated}
                 /\ now' = now + 1
                 /\ handlers' = [handlers EXCEPT ![h].kind = "regenerate",
                                                 ![h].pc = "done",
                                                 ![h].before = <<chapter>>,
                                                 ![h].new_chapters = <<updated>>]
    /\ UNCHANGED next_id
    /\ UNCHANGED <<transcript_lines, max_chapters, api_key, pc, requests, prompt,
                   api_response, chapters, new_start_sec, result, raised>>

\* A project as create_project_from_transcript leaves it: at least one
\* transcript line, and `payload.max_chapters or 10` (main.py line 66).
InitStore ==
    /\ transcript_lines \in Transcripts(1)
    /\ max_chapters \in MaxChaptersInputs \ {0}
    /\ api_key \in BOOLEAN
    /\ Idle

NextStore ==
    \E h \in Handlers :
        \/ GenerateChaptersBegin(h)
        \/ GenerateChaptersDelete(h)
        \/ GenerateChaptersInsert(h)
        \/ RegenerateChapter(h)

SpecStore == InitStore /\ [][NextStore]_vars

\* =================================================================== claims
\* The extent of a transcript: min(segment starts), max(segment ends-or-starts).
MinStart(lines) == MinOf([i \in 1..Len(lines) |-> lines[i].start_sec])
MaxStart(lines) == MaxOf([i \in 1..Len(lines) |-> lines[i].start_sec])
MaxEnd(lines) == MaxOf([i \in 1..Len(lines) |-> EndOrStart(lines[i])])
StartSet(lines) == {lines[i].start_sec : i \in 1..Len(lines)}
EndSet(lines) == {EndOrStart(lines[i]) : i \in 1..Len(lines)}
Within(t, lo, hi) == lo <= t /\ t <= hi
Returned == pc = "done" /\ transcript_lines # <<>>
\* What max_chapters stands for: 10 when zero.
Requested == IF max_chapters = 0 THEN DefaultMaxChapters ELSE max_chapters

\* C1: every chapter generate_chapters_from_transcript returns, from the model
\* path or from the fallback, has start_sec and end_sec inside
\* [min(segment starts), max(segment ends-or-starts)].
C1_ChaptersWithinTranscript ==
    Returned =>
        \A i \in 1..Len(result) :
            /\ Within(result[i].start_sec, MinStart(transcript_lines),
                      MaxEnd(transcript_lines))
            /\ Within(result[i].end_sec.v, MinStart(transcript_lines),
                      MaxEnd(transcript_lines))

\* C2: every chapter generate_chapters_from_transcript returns has
\* end_sec >= start_sec, also when the duration is shorter than the count.
C2_EndNotBeforeStart ==
    Returned => \A i \in 1..Len(result) : result[i].end_sec.v >= result[i].start_sec

\* C3 as stated: for every integer max_chapters the returned list is non-empty
\* and holds at most max_chapters chapters (10 when max_chapters is zero).
C3_CountForEveryInteger ==
    Returned => Len(result) >= 1 /\ Len(result) <= Requested

\* C3 amended: for every max_chapters >= 0 the returned list is non-empty and
\* holds at most max_chapters chapters (10 when max_chapters is zero).
C3_CountForNonNegative ==
    Returned /\ max_chapters >= 0 => Len(result) >= 1 /\ Len(result) <= Requested

\* C3 witness: the model path returned fewer chapters than it parsed.
C3_Truncated ==
    /\ Returned
    /\ max_chapters >= 1
    /\ Len(chapters) > max_chapters
    /\ Len(result) = max_chapters

\* C7: no exception escapes generate_chapters_from_transcript, whatever the
\* model call gave: the invocation never ends in a raised exception.
C7_NoExceptionEscapes == pc # "raised" /\ raised = ""

\* C8: at most one model request, none without a credential, and the
\* invocation always ends in one of two outcomes: the snapped model chapters
\* when the parser yielded a candidate, otherwise _fallback_stub's list.
C8_OneRequestTwoOutcomes ==
    /\ requests <= 1
    /\ ~api_key => requests = 0
    /\ transcript_lines # <<>> /\ pc \in {"done", "raised"} =>
          /\ pc = "done"
          /\ IF chapters # <<>>
             THEN LET snapped == _snap_chapters_to_transcript(
                                     chapters, SortedByStart(transcript_lines))
                  IN \A i \in 1..Len(result) :
                         \E j \in 1..Len(snapped) : result[i] = snapped[j]
             ELSE result = _fallback_stub(transcript_lines, max_chapters)

\* C4 as stated: every chapter the snapper outputs has its start_sec among the
\* segment starts and its end_sec among the segment ends-or-starts, the
\* chapters whose end was forced equal to the start included.
C4_BoundariesAreMembers ==
    pc = "done" =>
        \A i \in 1..Len(result) :
            /\ result[i].start_sec \in StartSet(transcript_lines)
            /\ result[i].end_sec.v \in EndSet(transcript_lines)

\* C4 amended: every chapter the snapper outputs has its start_sec among the
\* segment starts, and its end_sec among the segment ends-or-starts unless the
\* end was forced, when it equals the chapter's start_sec.
C4_MembersUnlessForced ==
    pc = "done" =>
        \A i \in 1..Len(result) :
            /\ result[i].start_sec \in StartSet(transcript_lines)
            /\ \/ result[i].end_sec.v \in EndSet(transcript_lines)
               \/ result[i].end_sec.v = result[i].start_sec

\* C4 witness: a forced end that is no segment end-or-start.
C4_ForcedEndOutsideEnds ==
    /\ pc = "done"
    /\ \E i \in 1..Len(result) :
          /\ result[i].end_sec.v = result[i].start_sec
          /\ result[i].end_sec.v \notin EndSet(transcript_lines)

\* Every segment has end_sec null or end_sec >= start_sec.
EndsAfterStarts(lines) ==
    \A i \in 1..Len(lines) : EndOrStart(lines[i]) >= lines[i].start_sec

\* C5 as stated: whatever the relation between a segment's start and end,
\* every chapter the snapper outputs has
\* min_time <= start_sec <= end_sec <= max_time.
C5_OrderedWithinExtent ==
    pc = "done" =>
        \A i \in 1..Len(result) :
            /\ MinStart(transcript_lines) <= result[i].start_sec
            /\ result[i].start_sec <= result[i].end_sec.v
            /\ result[i].end_sec.v <= MaxEnd(transcript_lines)

\* C5 amended: every chapter the snapper outputs has min_time <= start_sec <=
\* end_sec <= max(max_time, greatest segment start); the limit is max_time
\* when every segment has end_sec null or >= its start_sec.
C5_OrderedWithinStartsAndEnds ==
    pc = "done" =>
        \A i \in 1..Len(result) :
            /\ MinStart(transcript_lines) <= result[i].start_sec
            /\ result[i].start_sec <= result[i].end_sec.v
            /\ result[i].end_sec.v <=
                   Max2(MaxEnd(transcript_lines), MaxStart(transcript_lines))
            /\ EndsAfterStarts(transcript_lines) =>
                   result[i].end_sec.v <= MaxEnd(transcript_lines)

\* C5 witness: a segment ends before it starts and an output chapter ends
\* after max_time.
C5_EndBeyondMaxTime ==
    /\ pc = "done"
    /\ ~EndsAfterStarts(transcript_lines)
    /\ \E i \in 1..Len(result) : result[i].end_sec.v > MaxEnd(transcript_lines)

\* C6: for max_chapters >= 1 the fallback returns min(max_chapters, 10)
\* chapters that are contiguous, non-overlapping and cover [0, duration].
C6_FallbackCoversDuration ==
    pc = "done" /\ transcript_lines # <<>> /\ max_chapters >= 1 =>
        LET n == Min2(max_chapters, DefaultMaxChapters)
        IN /\ Len(result) = n
           /\ result[1].start_sec = 0
           /\ result[n].end_sec.v = Duration(transcript_lines)
           /\ \A i \in 1..(n - 1) : result[i].end_sec.v = result[i + 1].start_sec
           /\ \A i \in 1..n : result[i].start_sec <= result[i].end_sec.v

\* A time field as the parser reads it (an absent key reads "00:00:00") has
\* 2 or 3 colon-separated integer components.
TwoOrThreeIntegers(field) ==
    \/ field.kind = "absent"
    \/ /\ field.kind = "str"
       /\ Len(field.parts) \in {2, 3}
       /\ \A i \in 1..Len(field.parts) : field.parts[i].isInt

\* Positions of the array elements that are objects with well-formed times.
WellFormedRows(rows) ==
    {i \in 1..Len(rows) :
        rows[i].isdict /\ TwoOrThreeIntegers(rows[i].start)
                       /\ TwoOrThreeIntegers(rows[i].end)}

\* The k-th smallest member of a set of positions.
KthOf(S, k) == CHOOSE i \in S : Cardinality({j \in S : j <= i}) = k

\* C9: the parser skips exactly the elements whose start or end does not have
\* 2 or 3 integer components, keeps the others in input order, and gives a
\* kept element without index its 1-based position in the raw array as order.
C9_RowsConvertedIndependently ==
    pc = "done" /\ api_response.kind = "chapters" =>
        LET rows == api_response.chapters
            kept == WellFormedRows(rows)
        IN /\ Len(chapters) = Cardinality(kept)
           /\ \A k \in 1..Len(chapters) :
                 LET i == KthOf(kept, k)
                 IN /\ rows[i].index.tag = "absent" => chapters[k].order = Some(i)
                    /\ rows[i].index.tag # "absent" => chapters[k].order = rows[i].index
                    /\ rows[i].title.kind = "absent" => chapters[k].title.n = i
                    /\ rows[i].title.kind # "absent" => chapters[k].title = rows[i].title

\* C9 witness: a skipped element followed by a kept element without index.
C9_KeptAfterSkipped ==
    /\ pc = "done"
    /\ api_response.kind = "chapters"
    /\ Len(api_response.chapters) = 2
    /\ 1 \notin WellFormedRows(api_response.chapters)
    /\ api_response.chapters[2].index.tag = "absent"
    /\ Len(chapters) = 1
    /\ chapters[1].order = Some(2)

\* C10: regenerate_single_chapter quotes the first segment, in the order
\* supplied, with start_sec >= new_start_sec (the placeholder when there is
\* none), returns start_sec = new_start_sec, end_sec and order null, source
\* "ai_edit", confidence 0.6, and sends no model request.
C10_RegenerateQuotesFirstAtOrAfter ==
    pc = "done" =>
        /\ result.start_sec = new_start_sec
        /\ result.end_sec = None
        /\ result.order = None
        /\ result.source = "ai_edit"
        /\ result.confidence = "0.6"
        /\ requests = 0
        /\ \/ /\ \A i \in 1..Len(transcript_lines) :
                    transcript_lines[i].start_sec < new_start_sec
              /\ result.summary.text = NoNearbyContext
           \/ \E i \in 1..Len(transcript_lines) :
                 /\ transcript_lines[i].start_sec >= new_start_sec
                 /\ \A j \in 1..(i - 1) :
                       transcript_lines[j].start_sec < new_start_sec
                 /\ result.summary.text =
                        SubSeq(transcript_lines[i].text, 1,
                               Min2(SummaryChars, Len(transcript_lines[i].text)))

\* C10 witness: two segments qualify, the later one supplied first, and the
\* summary quotes the one supplied first.
C10_FirstSuppliedQuoted ==
    /\ pc = "done"
    /\ Len(transcript_lines) = 2
    /\ transcript_lines[1].start_sec > transcript_lines[2].start_sec
    /\ transcript_lines[2].start_sec >= new_start_sec
    /\ transcript_lines[1].text = PlainText
    /\ transcript_lines[2].text # PlainText
    /\ result.summary.text = PlainText


\* ------------------------------------------------------------ stored chapters
\* The requests of one kind that have returned 200.
Completed(kind) ==
    {h \in Handlers : handlers[h].kind = kind /\ handlers[h].pc = "done"}

\* C11: after any sequence of generate_chapters and regenerate_chapter
\* requests every stored chapter has end_sec null or end_sec >= start_sec,
\* and a completed regenerate_chapter has left the end_sec, order and
\* confidence of its chapter as they were.
C11_StoredRangesOrdered ==
    /\ \A c \in stored : c.end_sec = None \/ c.end_sec.v >= c.start_sec
    /\ \A h \in Completed("regenerate") :
         LET old == handlers[h].before[1]
             new == handlers[h].new_chapters[1]
         IN /\ new.id = old.id
            /\ new.end_sec = old.end_sec
            /\ new.order = old.order
            /\ new.confidence = old.confidence

\* Every request made so far is a generate_chapters request that has
\* returned, and at least one of them returned 200.
AllGenerationsCompleted ==
    /\ \A h \in Handlers :
          \/ handlers[h].kind = "none"
          \/ handlers[h].kind = "generate" /\ handlers[h].pc \in {"done", "failed"}
    /\ Completed("generate") # {}

\* C12: under any interleaving of generate_chapters requests for the same
\* project, once all of them have completed the stored chapters are exactly
\* the rows inserted by one of the generations, with no chapter of another
\* generation beside them.
C12_ExactlyOneGenerationStored ==
    AllGenerationsCompleted =>
        \E h \in Completed("generate") : stored = Range(handlers[h].new_chapters)

====
